---- MODULE Spec2Model ----
(***************************************************************************)
(* Model of src/f.py: convert_to_json (CSV rows -> nested JSON document)   *)
(* and its helpers clean_string, clean_number and parse_hours.             *)
(*                                                                         *)
(* Python strings are sequences of one-character strings, so that strip,   *)
(* lower, split, replace and the digit filter are computed, not assumed.   *)
(* A Python dict is a set of <<key, value>> pairs with distinct keys.      *)
(* An Optional value is a sequence: <<>> is None, <<v>> is the value v.    *)
(***************************************************************************)
EXTENDS Integers, Sequences, FiniteSets, TLC

VARIABLES
    headers,           \* header row of the CSV file (line 60)
    all_rows,          \* data rows read into memory (line 69)
    specific_rows,     \* the caller's requested row numbers
    now,               \* the wall clock (datetime.datetime.now())
    current_year,      \* line 55
    pc,                \* position in convert_to_json / parse_hours
    pos,               \* position of the for loop of line 72 in specific_rows
    hvac_contractors,  \* line 66
    stdout,            \* the lines printed so far
    json_data,         \* line 311
    output_file,       \* the output destination
    opens,             \* how many times the output destination was opened
    run,               \* the number of the current run of the transform
    first_doc,         \* the document the previous run wrote
    hours_string,      \* argument of a direct call of parse_hours
    hours_result       \* what that call gave

vars == <<headers, all_rows, specific_rows, now, current_year, pc, pos,
          hvac_contractors, stdout, json_data, output_file, opens, run,
          first_doc, hours_string, hours_result>>

(***************************************************************************)
(* Strings                                                                 *)
(***************************************************************************)
UpperLetters == <<"A","B","C","D","E","F","G","H","I","J","K","L","M",
                  "N","O","P","Q","R","S","T","U","V","W","X","Y","Z">>
LowerLetters == <<"a","b","c","d","e","f","g","h","i","j","k","l","m",
                  "n","o","p","q","r","s","t","u","v","w","x","y","z">>
Digits == <<"0","1","2","3","4","5","6","7","8","9">>

Range(s) == {s[i] : i \in DOMAIN s}

IndexIn(c, s) == CHOOSE i \in DOMAIN s : s[i] = c

UpperSet == Range(UpperLetters)
LowerSet == Range(LowerLetters)
DigitSet == Range(Digits)

ToLower == [c \in UpperSet |-> LowerLetters[IndexIn(c, UpperLetters)]]
ToUpper == [c \in LowerSet |-> UpperLetters[IndexIn(c, LowerLetters)]]

\* str.lower() and str.upper(), one character
LowerChar(c) == IF c \in UpperSet THEN ToLower[c] ELSE c
UpperChar(c) == IF c \in LowerSet THEN ToUpper[c] ELSE c

Lower(s) == [i \in DOMAIN s |-> LowerChar(s[i])]
Upper(s) == [i \in DOMAIN s |-> UpperChar(s[i])]

\* the whitespace str.strip() removes
Whitespace == {" ", "\t", "\n", "\r"}

IsDigit(c) == c \in DigitSet

DigitValue(c) == IndexIn(c, Digits) - 1

RECURSIVE StripLeft(_, _)
StripLeft(s, cs) == IF s # <<>> /\ Head(s) \in cs THEN StripLeft(Tail(s), cs) ELSE s

RECURSIVE StripRight(_, _)
StripRight(s, cs) ==
    IF s # <<>> /\ s[Len(s)] \in cs THEN StripRight(SubSeq(s, 1, Len(s) - 1), cs) ELSE s

\* str.strip(chars)
StripChars(s, cs) == StripRight(StripLeft(s, cs), cs)

\* str.strip()
Strip(s) == StripChars(s, Whitespace)

\* str.replace(a, b) for single characters
Replace(s, a, b) == [i \in DOMAIN s |-> IF s[i] = a THEN b ELSE s[i]]

\* str.split(sep) for a single-character separator: never empty
RECURSIVE Split(_, _)
Split(s, sep) ==
    IF \A i \in DOMAIN s : s[i] # sep THEN <<s>>
    ELSE LET k == CHOOSE i \in DOMAIN s : s[i] = sep /\ \A j \in 1..(i - 1) : s[j] # sep
         IN  <<SubSeq(s, 1, k - 1)>> \o Split(SubSeq(s, k + 1, Len(s)), sep)

\* re.sub(r'\D', '', s)
DigitsOnly(s) == SelectSeq(s, IsDigit)

\* the literal "None"
NoneToken == <<"N","o","n","e">>

(***************************************************************************)
(* Dictionaries and JSON values                                            *)
(***************************************************************************)
\* a JSON string and a JSON object, in one shape so that any two compare
JStr(s) == [t |-> "str", s |-> s, o |-> {}]
JObj(d) == [t |-> "obj", s |-> <<>>, o |-> d]

\* d[k] = v : a later key replaces an earlier one
Put(d, k, v) == {p \in d : p[1] # k} \cup {<<k, v>>}

(***************************************************************************)
(* json.loads, for texts made of objects, strings and whitespace.  The     *)
(* texts drawn below hold no backslash, digit outside a string, bracket or *)
(* literal (true, false, null, NaN, Infinity), so nothing else can parse.  *)
(* A parse gives [ok, val, next]; ok = FALSE is JSONDecodeError.           *)
(***************************************************************************)
JsonFail == [ok |-> FALSE, val |-> JStr(<<>>), next |-> 0]

RECURSIVE SkipWs(_, _)
SkipWs(s, i) == IF i <= Len(s) /\ s[i] \in Whitespace THEN SkipWs(s, i + 1) ELSE i

\* s[i] is the opening quote
JsonString(s, i) ==
    IF \E j \in (i + 1)..Len(s) : s[j] = "\""
    THEN LET j == CHOOSE j \in (i + 1)..Len(s) :
                      s[j] = "\"" /\ \A k \in (i + 1)..(j - 1) : s[k] # "\""
         IN  IF \E k \in (i + 1)..(j - 1) : s[k] \in {"\\", "\t", "\n", "\r"}
             THEN JsonFail
             ELSE [ok |-> TRUE, val |-> JStr(SubSeq(s, i + 1, j - 1)), next |-> j + 1]
    ELSE JsonFail

RECURSIVE JsonValue(_, _)
RECURSIVE JsonMembers(_, _, _)

\* the members of an object from position i (a key is expected), d so far
JsonMembers(s, i, d) ==
    LET a == SkipWs(s, i) IN
    IF a > Len(s) \/ s[a] # "\"" THEN JsonFail
    ELSE LET key == JsonString(s, a) IN
         IF ~key.ok THEN JsonFail
         ELSE LET b == SkipWs(s, key.next) IN
              IF b > Len(s) \/ s[b] # ":" THEN JsonFail
              ELSE LET v == JsonValue(s, b + 1) IN
                   IF ~v.ok THEN JsonFail
                   ELSE LET c  == SkipWs(s, v.next)
                            d2 == Put(d, key.val.s, v.val)
                        IN  IF c > Len(s) THEN JsonFail
                            ELSE IF s[c] = "}" THEN [ok |-> TRUE, val |-> JObj(d2), next |-> c + 1]
                            ELSE IF s[c] = "," THEN JsonMembers(s, c + 1, d2)
                            ELSE JsonFail

JsonValue(s, i) ==
    LET a == SkipWs(s, i) IN
    IF a > Len(s) THEN JsonFail
    ELSE IF s[a] = "\"" THEN JsonString(s, a)
    ELSE IF s[a] = "{"
         THEN LET b == SkipWs(s, a + 1) IN
              IF b <= Len(s) /\ s[b] = "}"
              THEN [ok |-> TRUE, val |-> JObj({}), next |-> b + 1]
              ELSE JsonMembers(s, a + 1, {})
    ELSE JsonFail

\* json.loads(s): one value, then only whitespace
json_loads(s) ==
    LET v == JsonValue(s, 1) IN
    IF v.ok /\ SkipWs(s, v.next) > Len(s) THEN v ELSE JsonFail

(***************************************************************************)
(* parse_hours (lines 23-51).  The result is [raised, val]: raised means   *)
(* an exception left the function; val is the dict returned.               *)
(***************************************************************************)
RawHoursKey == <<"r","a","w","_","h","o","u","r","s">>

RawHours(s) == {<<RawHoursKey, JStr(s)>>}

\* lines 40-44: the loop over the '|'-separated entries
RECURSIVE PipeEntries(_, _)
PipeEntries(entries, d) ==
    IF entries = <<>> THEN d
    ELSE LET parts == Split(Head(entries), ":") IN
         PipeEntries(Tail(entries),
                     IF Len(parts) = 2 THEN Put(d, Lower(parts[1]), JStr(parts[2])) ELSE d)

\* a variant that sniffs the pipe format before the JSON format
HoursTryPipeFirst(s) ==
    IF "|" \in Range(s)
    THEN [failed |-> FALSE, val |-> PipeEntries(Split(s, "|"), {})]
    ELSE IF s[1] = "{"
    THEN LET r == json_loads(Replace(s, "'", "\"")) IN
         IF r.ok THEN [failed |-> FALSE, val |-> r.val.o] ELSE [failed |-> TRUE, val |-> {}]
    ELSE [failed |-> FALSE, val |-> RawHours(s)]

\* lines 30-48: the body of the try block; failed means an exception was raised in it
HoursTry(s) ==
    IF s[1] = "{"
    THEN LET r == json_loads(Replace(s, "'", "\"")) IN
         IF r.ok THEN [failed |-> FALSE, val |-> r.val.o] ELSE [failed |-> TRUE, val |-> {}]
    ELSE IF "|" \in Range(s)
    THEN [failed |-> FALSE, val |-> PipeEntries(Split(s, "|"), {})]
    ELSE [failed |-> FALSE, val |-> RawHours(s)]

parse_hours(s) ==
    IF s = <<>> \/ s = NoneToken THEN [raised |-> FALSE, val |-> {}]
    ELSE LET t == HoursTry(s) IN
         IF t.failed THEN [raised |-> FALSE, val |-> RawHours(s)]
         ELSE [raised |-> FALSE, val |-> t.val]

(***************************************************************************)
(* Field normalizers (lines 8-21)                                          *)
(***************************************************************************)
\* lines 8-12; a CSV cell is never Python's None
clean_string(s) == IF s = NoneToken \/ s = <<>> THEN <<>> ELSE Strip(s)

RECURSIVE Pow10(_)
Pow10(n) == IF n = 0 THEN 1 ELSE 10 * Pow10(n - 1)

RECURSIVE DigitsValue(_)
DigitsValue(s) == IF s = <<>> THEN 0 ELSE 10 * DigitsValue(SubSeq(s, 1, Len(s) - 1)) + DigitValue(s[Len(s)])

(***************************************************************************)
(* float(s), for texts without exponent or underscore (none is drawn       *)
(* below).  A float is [k, neg, m, d]: k = "num" is the number m / 10^d    *)
(* (negated when neg), k = "inf" an infinity, k = "nan" not-a-number.      *)
(* ok = FALSE is ValueError.                                               *)
(***************************************************************************)
FloatFail == [ok |-> FALSE, k |-> "nan", neg |-> FALSE, m |-> 0, d |-> 0]

RECURSIVE Normal(_, _)
Normal(m, d) == IF d > 0 /\ m % 10 = 0 THEN Normal(m \div 10, d - 1) ELSE <<m, d>>

ParseFloat(s) ==
    LET t    == Strip(s)
        sgn  == t # <<>> /\ t[1] \in {"+", "-"}
        neg  == t # <<>> /\ t[1] = "-"
        body == IF sgn THEN Tail(t) ELSE t
        low  == Lower(body)
        dots == {i \in DOMAIN body : body[i] = "."}
    IN  IF low \in {<<"i","n","f">>, <<"i","n","f","i","n","i","t","y">>}
        THEN [ok |-> TRUE, k |-> "inf", neg |-> neg, m |-> 0, d |-> 0]
        ELSE IF low = <<"n","a","n">>
        THEN [ok |-> TRUE, k |-> "nan", neg |-> neg, m |-> 0, d |-> 0]
        ELSE IF /\ \A i \in DOMAIN body : IsDigit(body[i]) \/ body[i] = "."
                /\ Cardinality(dots) <= 1
                /\ \E i \in DOMAIN body : IsDigit(body[i])
        THEN LET d == IF dots = {} THEN 0 ELSE Len(body) - (CHOOSE i \in dots : TRUE)
                 n == Normal(DigitsValue(SelectSeq(body, IsDigit)), d)
             IN  [ok |-> TRUE, k |-> "num", neg |-> neg, m |-> n[1], d |-> n[2]]
        ELSE FloatFail

\* bool(x) of a float
FloatTruthy(f) == f.k # "num" \/ f.m # 0

\* x >= 4.5 (line 291)
AtLeastFourAndHalf(f) ==
    \/ f.k = "inf" /\ ~f.neg
    \/ f.k = "num" /\ ~f.neg /\ f.m * 10 >= 45 * Pow10(f.d)

(***************************************************************************)
(* clean_number (lines 14-21) of a string: [raised, val].  int() of an     *)
(* infinity raises OverflowError, which line 20 does not catch; int() of a *)
(* NaN raises ValueError, which it does.                                   *)
(***************************************************************************)
clean_number(n) ==
    IF n = NoneToken \/ n = <<>> THEN [raised |-> FALSE, val |-> <<>>]
    ELSE LET f == ParseFloat(n) IN
         IF ~f.ok \/ f.k = "nan" THEN [raised |-> FALSE, val |-> <<>>]
         ELSE IF f.k = "inf" THEN [raised |-> TRUE, val |-> <<>>]
         ELSE [raised |-> FALSE,
               val |-> <<(IF f.neg THEN -1 ELSE 1) * (f.m \div Pow10(f.d))>>]

(***************************************************************************)
(* The per-row closures (lines 63, 88-107); h is the header row.  Indices  *)
(* are 1-based here: Python's index k is k + 1.                            *)
(***************************************************************************)
\* header_map.get(key): 0 stands for None; a repeated header keeps its last index
RECURSIVE LastIndex(_, _, _)
LastIndex(h, key, i) ==
    IF i = 0 THEN 0 ELSE IF h[i] = key THEN i ELSE LastIndex(h, key, i - 1)

HeaderIndex(h, key) == LastIndex(h, key, Len(h))

\* header_map.get('name', 0)
NameIndex(h) == IF HeaderIndex(h, "name") = 0 THEN 1 ELSE HeaderIndex(h, "name")

\* lines 88-92
get_value(h, row, key, default) ==
    LET index == HeaderIndex(h, key) IN
    IF index = 0 \/ index > Len(row) THEN default ELSE clean_string(row[index])

\* lines 95-102, default None
get_number(h, row, key) ==
    LET val == get_value(h, row, key, <<>>) IN
    IF val = <<>> THEN <<>>
    ELSE LET f == ParseFloat(val) IN IF f.ok THEN <<f>> ELSE <<>>

\* lines 105-107, default False
get_boolean(h, row, key) ==
    LET val == get_value(h, row, key, <<>>) IN
    IF val # <<>> THEN Upper(val) = <<"T","R","U","E">> ELSE FALSE

(***************************************************************************)
(* Derived fields                                                          *)
(***************************************************************************)
IsSlugChar(c) == c \in LowerSet \/ IsDigit(c)

RECURSIVE Collapse(_)
Collapse(s) ==
    IF Len(s) < 2 THEN s
    ELSE IF s[1] = "-" /\ s[2] = "-" THEN Collapse(Tail(s))
    ELSE <<s[1]>> \o Collapse(Tail(s))

\* line 113
Slug(name) ==
    LET low == Lower(name)
        sub == [i \in DOMAIN low |-> IF IsSlugChar(low[i]) THEN low[i] ELSE "-"]
    IN  StripChars(Collapse(sub), {"-"})

PhoneFields == <<"phone_1", "phone_2", "phone_3">>

\* lines 169-173
PhoneEntry(h, row, field) ==
    [number  |-> get_value(h, row, field, <<>>),
     type    |-> get_value(h, row, field \o ".phones_enricher.carrier_type", <<>>),
     carrier |-> get_value(h, row, field \o ".phones_enricher.carrier_name", <<>>)]

\* the loop without the set of numbers already seen
RECURSIVE AdditionalPhonesNoSeen(_, _, _, _, _)
AdditionalPhonesNoSeen(h, row, fields, seen, acc) ==
    IF fields = <<>> THEN acc
    ELSE LET phone_number == get_value(h, row, Head(fields), <<>>)
             clean_phone  == DigitsOnly(phone_number)
             add          == phone_number # <<>> /\ clean_phone # <<>>
         IN  AdditionalPhonesNoSeen(h, row, Tail(fields), seen,
                              IF add THEN Append(acc, PhoneEntry(h, row, Head(fields))) ELSE acc)

\* lines 161-173: the loop over the phone columns; seen is processed_phone_numbers
RECURSIVE AdditionalPhones(_, _, _, _, _)
AdditionalPhones(h, row, fields, seen, acc) ==
    IF fields = <<>> THEN acc
    ELSE LET phone_number == get_value(h, row, Head(fields), <<>>)
             clean_phone  == DigitsOnly(phone_number)
             add          == phone_number # <<>> /\ clean_phone # <<>> /\ clean_phone \notin seen
         IN  AdditionalPhones(h, row, Tail(fields),
                              IF add THEN seen \cup {clean_phone} ELSE seen,
                              IF add THEN Append(acc, PhoneEntry(h, row, Head(fields))) ELSE acc)

\* lines 157-158
PrimarySeen(phone) == IF phone # <<>> THEN {DigitsOnly(phone)} ELSE {}

Mobile == <<"m","o","b","i","l","e">>

\* lines 203-204
HasMobilePhone(phone_type, additional_phones) ==
    \/ Lower(phone_type) = Mobile
    \/ \E i \in DOMAIN additional_phones :
          additional_phones[i].type # <<>> /\ Lower(additional_phones[i].type) = Mobile

\* an id that carries the time stamp whether or not there is a place id
RecordIdStamped(place_id, row_index, ts) ==
    IF place_id # <<>>
    THEN [fallback |-> FALSE, text |-> place_id, row |-> 0, ts |-> ts]
    ELSE [fallback |-> TRUE, text |-> <<>>, row |-> row_index, ts |-> ts]

\* line 214: the id; the fallback text "id-{row_index}-{timestamp}" is kept as its parts
RecordId(place_id, row_index, ts) ==
    IF place_id # <<>>
    THEN [fallback |-> FALSE, text |-> place_id, row |-> 0, ts |-> 0]
    ELSE [fallback |-> TRUE, text |-> <<>>, row |-> row_index, ts |-> ts]

(***************************************************************************)
(* The body of the loop for one selected row (lines 110-295).  Fields that *)
(* are plain get_value copies of one column (city, zip, the social media   *)
(* handles, the e-mail contact fields, ...) are represented by query,      *)
(* website and facebook.                                                   *)
(***************************************************************************)
\* line 210: the default of get_value is the integer 0 there
PhotosCount(h, row) ==
    LET index == HeaderIndex(h, "photos_count") IN
    IF index = 0 \/ index > Len(row) THEN [raised |-> FALSE, val |-> <<0>>]
    ELSE clean_number(clean_string(row[index]))

\* lines 195-197
YearsInBusiness(year_founded, year) ==
    IF year_founded # <<>> /\ year_founded[1] # 0 THEN <<year - year_founded[1]>> ELSE <<>>

\* lines 286-293
Segmentation(email1_status, phone_type, additional_phones, website, facebook, reviews_count, rating, years_in_business, verified) ==
    [has_valid_email      |-> email1_status = <<"R","E","C","E","I","V","I","N","G">>,
     has_mobile_phone     |-> HasMobilePhone(phone_type, additional_phones),
     has_website          |-> website # <<>>,
     has_facebook         |-> facebook # <<>>,
     has_reviews          |-> reviews_count # <<>> /\ reviews_count[1] > 0,
     high_rating          |-> rating # <<>> /\ FloatTruthy(rating[1]) /\ AtLeastFourAndHalf(rating[1]),
     established_business |-> years_in_business # <<>> /\ years_in_business[1] > 5,
     is_verified          |-> verified]

\* an exception leaves the loop body for this row: one of the clean_number calls
\* of lines 134, 136, 209 and 210 raises
RecordRaises(h, row) ==
    \/ clean_number(get_value(h, row, "site.company_insights.founded_year",
                              get_value(h, row, "company_year_started", <<>>))).raised
    \/ clean_number(get_value(h, row, "site.company_insights.employees",
                              get_value(h, row, "number_of_employees", <<>>))).raised
    \/ clean_number(get_value(h, row, "reviews", <<>>)).raised
    \/ PhotosCount(h, row).raised

\* the record of lines 213-295 for a row that raises nothing
BuildRecord(h, row, row_index, year, ts) ==
    LET name           == get_value(h, row, "name", <<>>)
        place_id       == get_value(h, row, "place_id", <<>>)
        phone          == get_value(h, row, "phone", <<>>)
        phone_type     == get_value(h, row, "phone.phones_enricher.carrier_type", <<>>)
        email1_status  == get_value(h, row, "email_1.emails_validator.status", <<>>)
        year_founded   == clean_number(get_value(h, row, "site.company_insights.founded_year",
                                                 get_value(h, row, "company_year_started", <<>>)))
        employee_count == clean_number(get_value(h, row, "site.company_insights.employees",
                                                 get_value(h, row, "number_of_employees", <<>>)))
        verified       == get_boolean(h, row, "verified")
        additional_phones == AdditionalPhones(h, row, PhoneFields, PrimarySeen(phone), <<>>)
        years_in_business == YearsInBusiness(year_founded.val, year)
        website        == get_value(h, row, "site", <<>>)
        facebook       == get_value(h, row, "facebook", <<>>)
        rating         == get_number(h, row, "rating")
        reviews_count  == clean_number(get_value(h, row, "reviews", <<>>))
        photos_count   == PhotosCount(h, row)
    IN     [id                |-> RecordId(place_id, row_index, ts),
            slug              |-> Slug(name),
            name              |-> name,
            query             |-> get_value(h, row, "query", <<>>),
            state             |-> get_value(h, row, "state", get_value(h, row, "us_state", <<>>)),
            phone             |-> phone,
            phone_type        |-> phone_type,
            additional_phones |-> additional_phones,
            email1_status     |-> email1_status,
            website           |-> website,
            facebook          |-> facebook,
            year_founded      |-> year_founded.val,
            years_in_business |-> years_in_business,
            employee_count    |-> employee_count.val,
            description       |-> get_value(h, row, "description",
                                            get_value(h, row, "site.company_insights.description", <<>>)),
            hours             |-> parse_hours(get_value(h, row, "working_hours", <<>>)).val,
            rating            |-> rating,
            reviews_count     |-> reviews_count.val,
            photos_count      |-> photos_count.val,
            verified          |-> verified,
            segmentation      |-> Segmentation(email1_status, phone_type, additional_phones,
                                               website, facebook, reviews_count.val, rating,
                                               years_in_business, verified)]

(***************************************************************************)
(* The aggregator (lines 300-319)                                          *)
(***************************************************************************)
HasWebsite(c)    == c.segmentation.has_website
HasValidEmail(c) == c.segmentation.has_valid_email
HasMobile(c)     == c.segmentation.has_mobile_phone
HighRating(c)    == c.segmentation.high_rating
Established(c)   == c.segmentation.established_business
IsVerified(c)    == c.segmentation.is_verified
HasReviews(c)    == c.segmentation.has_reviews

\* a segment table whose "established" entry reads the has_reviews flag
SegmentsWrongFlag(cs) ==
    [with_website      |-> Len(SelectSeq(cs, HasWebsite)),
     with_valid_email  |-> Len(SelectSeq(cs, HasValidEmail)),
     with_mobile_phone |-> Len(SelectSeq(cs, HasMobile)),
     high_rated        |-> Len(SelectSeq(cs, HighRating)),
     established       |-> Len(SelectSeq(cs, HasReviews)),
     verified          |-> Len(SelectSeq(cs, IsVerified))]

\* lines 301-308
Segments(cs) ==
    [with_website      |-> Len(SelectSeq(cs, HasWebsite)),
     with_valid_email  |-> Len(SelectSeq(cs, HasValidEmail)),
     with_mobile_phone |-> Len(SelectSeq(cs, HasMobile)),
     high_rated        |-> Len(SelectSeq(cs, HighRating)),
     established       |-> Len(SelectSeq(cs, Established)),
     verified          |-> Len(SelectSeq(cs, IsVerified))]

\* lines 311-319
Document(cs, requested, t) ==
    [hvac_contractors |-> cs,
     meta |-> [total_count    |-> Len(cs),
               generated_at   |-> t,
               segments       |-> Segments(cs),
               processed_rows |-> requested]]

(***************************************************************************)
(* convert_to_json as a state machine                                      *)
(***************************************************************************)
\* the calendar year the clock shows at time t
YearOf(t) == 2025 + (t \div 2)

NoDocument == <<>>

\* the output destination before the run: not there, or left by a run before time 0
Absent == [exists |-> FALSE, content |-> <<>>]
Stale  == [exists |-> TRUE, content |-> <<Document(<<>>, <<>>, -1)>>]

\* the loop taking the requested numbers in ascending order instead
RECURSIVE Ascending(_)
Ascending(s) ==
    IF s = <<>> THEN <<>>
    ELSE LET k == CHOOSE i \in DOMAIN s : \A j \in DOMAIN s : s[i] <= s[j]
         IN  <<s[k]>> \o Ascending(SubSeq(s, 1, k - 1) \o SubSeq(s, k + 1, Len(s)))

CurrentRowIndexSorted == Ascending(specific_rows)[pos]

\* line 72: the entry of the requested list the loop is at
CurrentRowIndex == specific_rows[pos]

InLoop == pc = "loop" /\ pos <= Len(specific_rows)

\* line 76, negated
InRange(n) == n - 1 >= 0 /\ n - 1 < Len(all_rows)

\* line 83: [raised, skip]; raised is the IndexError of a row that ends before the name column
NameCheck(h, row) ==
    IF row = <<>> THEN [raised |-> FALSE, skip |-> TRUE]
    ELSE IF NameIndex(h) > Len(row) THEN [raised |-> TRUE, skip |-> FALSE]
    ELSE [raised |-> FALSE, skip |-> row[NameIndex(h)] = <<>>]

\* lines 55-69
Start ==
    /\ pc = "start"
    /\ current_year' = YearOf(now)
    /\ hvac_contractors' = <<>>
    /\ pos' = 1
    /\ pc' = "loop"
    /\ UNCHANGED <<headers, all_rows, specific_rows, now, stdout, json_data, output_file,
                   opens, run, first_doc, hours_string, hours_result>>

\* the out-of-range branch leaving the loop (break) instead of going on (continue)
RowOutOfRangeBreak ==
    /\ InLoop
    /\ ~InRange(CurrentRowIndex)
    /\ stdout' = Append(stdout, <<"out of range", CurrentRowIndex>>)
    /\ pos' = Len(specific_rows) + 1
    /\ UNCHANGED <<headers, all_rows, specific_rows, now, current_year, pc, hvac_contractors,
                   json_data, output_file, opens, run, first_doc, hours_string, hours_result>>

\* lines 76-78
RowOutOfRange ==
    /\ InLoop
    /\ ~InRange(CurrentRowIndex)
    /\ stdout' = Append(stdout, <<"out of range", CurrentRowIndex>>)
    /\ pos' = pos + 1
    /\ UNCHANGED <<headers, all_rows, specific_rows, now, current_year, pc, hvac_contractors,
                   json_data, output_file, opens, run, first_doc, hours_string, hours_result>>

\* lines 83-85
RowNoName ==
    /\ InLoop
    /\ InRange(CurrentRowIndex)
    /\ LET c == NameCheck(headers, all_rows[CurrentRowIndex]) IN ~c.raised /\ c.skip
    /\ stdout' = Append(stdout, <<"empty or no name", CurrentRowIndex>>)
    /\ pos' = pos + 1
    /\ UNCHANGED <<headers, all_rows, specific_rows, now, current_year, pc, hvac_contractors,
                   json_data, output_file, opens, run, first_doc, hours_string, hours_result>>

\* an exception leaves the loop body: nothing catches it, the run ends
RowRaises ==
    /\ InLoop
    /\ InRange(CurrentRowIndex)
    /\ LET row == all_rows[CurrentRowIndex]
           c   == NameCheck(headers, row)
       IN  \/ c.raised
           \/ ~c.skip /\ RecordRaises(headers, row)
    /\ pc' = "raised"
    /\ UNCHANGED <<headers, all_rows, specific_rows, now, current_year, pos, hvac_contractors,
                   stdout, json_data, output_file, opens, run, first_doc, hours_string,
                   hours_result>>

\* the loop writing the document so far after every record
RowAppendIncremental ==
    /\ InLoop
    /\ InRange(CurrentRowIndex)
    /\ LET row == all_rows[CurrentRowIndex]
           c   == NameCheck(headers, row)
           b   == BuildRecord(headers, row, CurrentRowIndex, current_year, now)
       IN  /\ ~c.raised /\ ~c.skip /\ ~RecordRaises(headers, row)
           /\ hvac_contractors' = Append(hvac_contractors, b)
           /\ stdout' = Append(stdout, <<"processed", CurrentRowIndex>>)
           /\ output_file' = [exists |-> TRUE,
                              content |-> <<Document(hvac_contractors', specific_rows, now)>>]
    /\ pos' = pos + 1
    /\ UNCHANGED <<headers, all_rows, specific_rows, now, current_year, pc, json_data,
                   opens, run, first_doc, hours_string, hours_result>>

\* lines 110-298
RowAppend ==
    /\ InLoop
    /\ InRange(CurrentRowIndex)
    /\ LET row == all_rows[CurrentRowIndex]
           c   == NameCheck(headers, row)
           b   == BuildRecord(headers, row, CurrentRowIndex, current_year, now)
       IN  /\ ~c.raised /\ ~c.skip /\ ~RecordRaises(headers, row)
           /\ hvac_contractors' = Append(hvac_contractors, b)
           /\ stdout' = Append(stdout, <<"processed", CurrentRowIndex>>)
    /\ pos' = pos + 1
    /\ UNCHANGED <<headers, all_rows, specific_rows, now, current_year, pc, json_data,
                   output_file, opens, run, first_doc, hours_string, hours_result>>

\* lines 300-319
Aggregate ==
    /\ pc = "loop"
    /\ pos > Len(specific_rows)
    /\ json_data' = <<Document(hvac_contractors, specific_rows, now)>>
    /\ pc' = "open"
    /\ UNCHANGED <<headers, all_rows, specific_rows, now, current_year, pos, hvac_contractors,
                   stdout, output_file, opens, run, first_doc, hours_string, hours_result>>

\* line 322: open(output_file, 'w') creates or truncates
OpenOutput ==
    /\ pc = "open"
    /\ output_file' = [exists |-> TRUE, content |-> <<>>]
    /\ opens' = opens + 1
    /\ pc' = "dump"
    /\ UNCHANGED <<headers, all_rows, specific_rows, now, current_year, pos, hvac_contractors,
                   stdout, json_data, run, first_doc, hours_string, hours_result>>

\* lines 323-326
DumpOutput ==
    /\ pc = "dump"
    /\ output_file' = [exists |-> TRUE, content |-> json_data]
    /\ stdout' = Append(stdout, <<"total", Len(hvac_contractors)>>)
    /\ pc' = "done"
    /\ UNCHANGED <<headers, all_rows, specific_rows, now, current_year, pos, hvac_contractors,
                   json_data, opens, run, first_doc, hours_string, hours_result>>

Next ==
    \/ Start
    \/ RowOutOfRange
    \/ RowNoName
    \/ RowRaises
    \/ RowAppend
    \/ Aggregate
    \/ OpenOutput
    \/ DumpOutput

(***************************************************************************)
(* One run over a small table: the rows differ in length and in what the   *)
(* name cell holds.                                                        *)
(***************************************************************************)
MaxRows == 2
MaxReq  == 2

SeqsUpTo(S, n) == UNION {[1..k -> S] : k \in 0..n}

P1   == <<"p","1">>
Acme == <<"A","c","m","e">>

SelHeaders == {<<"place_id", "name">>, <<"name", "place_id">>, <<"place_id", "query">>}

SelRows ==
    {<<>>, <<P1>>, <<P1, Acme>>, <<<<>>, Acme>>, <<P1, <<>>>>, <<P1, NoneToken>>}

InitRun ==
    /\ now = 0
    /\ current_year = 0
    /\ pos = 1
    /\ hvac_contractors = <<>>
    /\ stdout = <<>>
    /\ json_data = NoDocument
    /\ opens = 0
    /\ run = 1
    /\ first_doc = NoDocument
    /\ hours_result = <<>>

Init ==
    /\ headers \in SelHeaders
    /\ all_rows \in SeqsUpTo(SelRows, MaxRows)
    /\ specific_rows \in SeqsUpTo(0..(MaxRows + 1), MaxReq)
    /\ output_file = Stale
    /\ pc = "start"
    /\ hours_string = <<>>
    /\ InitRun

Spec == Init /\ [][Next]_vars

(***************************************************************************)
(* parse_hours called directly on every text of a small alphabet and on a  *)
(* few longer ones.                                                        *)
(***************************************************************************)
MaxHoursLen == 5

HoursAlphabet == {"{", "}", "'", ":", "|", "M"}

HoursExamples ==
    {<<"m","o","n",":","9","-","5","|","t","u","e",":","9","-","5">>,
     <<"{","'","m","o","n","'",":"," ","'","9","-","5","'","}">>,
     <<"c","l","o","s","e","d"," ","s","u","n","d","a","y","s">>,
     <<"N","o","n","e">>,
     <<"{","'","a","'",":","'","b","'","|">>,
     <<"M","o","n",":","9","-","5","|","x","|","a",":","b",":","c","|","M","O","N",":","8">>,
     <<"{","\"","a","\"",":","\"","b","\"",","," ","\"","a","\"",":","\"","c","\"","}">>,
     <<"{","'","a","'",":","{","'","b","'",":","'","c","'","}","}"," ">>}

HoursInputs == SeqsUpTo(HoursAlphabet, MaxHoursLen) \cup HoursExamples

InitHours ==
    /\ headers = <<>>
    /\ all_rows = <<>>
    /\ specific_rows = <<>>
    /\ output_file = Absent
    /\ InitRun
    /\ pc = "parse_hours"
    /\ hours_string \in HoursInputs

\* a call parse_hours(hours_string)
CallParseHours ==
    /\ pc = "parse_hours"
    /\ hours_result' = <<parse_hours(hours_string)>>
    /\ pc' = "returned"
    /\ UNCHANGED <<headers, all_rows, specific_rows, now, current_year, pos, hvac_contractors,
                   stdout, json_data, output_file, opens, run, first_doc, hours_string>>

NextHours == CallParseHours

SpecHours == InitHours /\ [][NextHours]_vars

(***************************************************************************)
(* Properties of the row selection                                         *)
(***************************************************************************)
\* the run has ended: normally, or by an exception
Ended == pc \in {"done", "raised"}

\* the requested entries the loop has dealt with
Handled == SubSeq(specific_rows, 1, pos - 1)

ProcessedLines(n) == {k \in DOMAIN stdout : stdout[k] = <<"processed", n>>}
RequestedAt(n)    == {i \in DOMAIN specific_rows : specific_rows[i] = n}

\* row number n is in range and its row has a non-empty cell in the name column
HasNameCell(n) ==
    /\ InRange(n)
    /\ HeaderIndex(headers, "name") # 0
    /\ HeaderIndex(headers, "name") <= Len(all_rows[n])
    /\ all_rows[n][HeaderIndex(headers, "name")] # <<>>

\* row number n is in range and its row has no resolvable name
Nameless(n) ==
    /\ InRange(n)
    /\ get_value(headers, all_rows[n], "name", <<>>) = <<>>

\* C1: when the run has ended, every requested row number that is in range and
\* whose row has a non-empty name column has given one record per request, and
\* the number of records is the number of such requests.
C1_OneRecordPerNamedRow ==
    Ended =>
        /\ \A n \in Range(specific_rows) :
              HasNameCell(n) => Cardinality(ProcessedLines(n)) = Cardinality(RequestedAt(n))
        /\ Len(hvac_contractors) =
              Cardinality({i \in DOMAIN specific_rows : HasNameCell(specific_rows[i])})

\* C2: a step of the loop at an out-of-range row number prints the warning, adds
\* no record and moves to the next entry of the requested list; the run goes on.
C2_OutOfRangeSkipped ==
    [][(InLoop /\ ~InRange(CurrentRowIndex)) =>
          /\ stdout' = Append(stdout, <<"out of range", CurrentRowIndex>>)
          /\ hvac_contractors' = hvac_contractors
          /\ pos' = pos + 1
          /\ pc' = "loop"]_vars

C2_Witness ==
    /\ pc = "done"
    /\ \E i, j \in DOMAIN stdout :
          i < j /\ stdout[i][1] = "out of range" /\ stdout[j][1] = "processed"

\* C3: a selected row with no resolvable name never ends the run and never
\* gives a record.
C3_NamelessRowSkipped ==
    /\ pc = "raised" => ~Nameless(CurrentRowIndex)
    /\ \A k \in DOMAIN hvac_contractors : hvac_contractors[k].name # <<>>

\* the entry is one the loop keeps: in range, row not empty, name cell not empty
Kept(n) ==
    /\ InRange(n)
    /\ all_rows[n] # <<>>
    /\ NameIndex(headers) <= Len(all_rows[n])
    /\ all_rows[n][NameIndex(headers)] # <<>>

\* C6: the records are those of the handled entries of the requested list that
\* were not skipped, one per entry, in the order of the requested list.
C6_RequestedOrder ==
    pc # "start" =>
        LET kept == SelectSeq(Handled, Kept) IN
        /\ Len(hvac_contractors) = Len(kept)
        /\ \A k \in DOMAIN kept :
              hvac_contractors[k] =
                  BuildRecord(headers, all_rows[kept[k]], kept[k], current_year,
                              hvac_contractors[k].id.ts)

C6_Witness ==
    /\ pc = "done"
    /\ Len(hvac_contractors) = 2
    /\ LET kept == SelectSeq(specific_rows, Kept) IN
          /\ Len(kept) = 2 /\ kept[1] >= kept[2]
          /\ hvac_contractors[1] # hvac_contractors[2] \/ kept[1] = kept[2]

\* C8: the output destination is touched only after the loop has dealt with
\* every requested entry, and it is opened at most once.
C8_OutputOnlyAtEnd ==
    [][(output_file' # output_file \/ opens' # opens) =>
          /\ pc \in {"open", "dump"}
          /\ pos > Len(specific_rows)
          /\ opens' <= 1]_vars

C8_Witness ==
    /\ pc = "done"
    /\ opens = 1
    /\ output_file = [exists |-> TRUE, content |-> json_data]
    /\ Len(hvac_contractors) > 0

(***************************************************************************)
(* parse_hours called directly                                             *)
(***************************************************************************)
\* the '|'-separated entries of s that split on ':' into exactly two parts
DayEntries(s) ==
    LET entries == Split(s, "|") IN
    {i \in DOMAIN entries : Len(Split(entries[i], ":")) = 2}

\* the mapping of those entries, lower-cased day to time; a repeated day keeps its last time
DayMapping(s) ==
    LET entries == Split(s, "|")
        day(i)  == Lower(Split(entries[i], ":")[1])
        time(i) == Split(entries[i], ":")[2]
    IN  {<<day(i), JStr(time(i))>> : i \in {i \in DayEntries(s) :
                                            \A j \in DayEntries(s) : day(j) = day(i) => j <= i}}

\* what the ordered policies give for a non-empty text
HoursByPolicy(s) ==
    IF s[1] = "{"
    THEN LET r == json_loads(Replace(s, "'", "\"")) IN IF r.ok THEN r.val.o ELSE RawHours(s)
    ELSE IF \E i \in DOMAIN s : s[i] = "|" THEN DayMapping(s)
    ELSE RawHours(s)

\* C9 as stated: only the empty text gives the empty mapping outright; every
\* other text goes through the ordered policies; no call raises.
C9_HoursPolicies ==
    pc = "returned" =>
        hours_result = <<[raised |-> FALSE,
                          val |-> IF hours_string = <<>> THEN {} ELSE HoursByPolicy(hours_string)]>>

\* C9 amended: the empty text and the literal "None" give the empty mapping;
\* every other text goes through the ordered policies; no call raises.
C9_HoursPoliciesNoneToken ==
    pc = "returned" =>
        hours_result = <<[raised |-> FALSE,
                          val |-> IF hours_string = <<>> \/ hours_string = NoneToken THEN {}
                                  ELSE HoursByPolicy(hours_string)]>>

\* a text that begins with '{', holds '|', fails to parse and came back raw
C9_Witness ==
    /\ pc = "returned"
    /\ hours_string # <<>>
    /\ hours_string[1] = "{"
    /\ \E i \in DOMAIN hours_string : hours_string[i] = "|"
    /\ hours_result[1].val = RawHours(hours_string)

(***************************************************************************)
(* One run over a table whose first row varies in its phone cells, in the  *)
(* cells of the columns with a fallback, or in the cells the segmentation  *)
(* flags read.                                                             *)
(***************************************************************************)
PhoneHeader ==
    <<"name", "phone", "phone.phones_enricher.carrier_type", "phone_1",
      "phone_1.phones_enricher.carrier_type", "phone_2", "phone_3",
      "phone_3.phones_enricher.carrier_type">>

FallbackHeader ==
    <<"name", "state", "us_state", "site.company_insights.founded_year",
      "company_year_started", "site.company_insights.employees", "number_of_employees",
      "description", "site.company_insights.description", "photos_count">>

PrimaryColumns ==
    {"state", "site.company_insights.founded_year", "site.company_insights.employees",
     "description", "photos_count"}

\* the same file without the primary column of each fallback chain
AltHeader == SelectSeq(FallbackHeader, LAMBDA c : c \notin PrimaryColumns)

FlagHeader ==
    <<"name", "site", "facebook", "rating", "reviews", "verified",
      "email_1.emails_validator.status", "site.company_insights.founded_year",
      "phone.phones_enricher.carrier_type", "working_hours">>

\* the row of header h whose cells are those of a, empty elsewhere
MakeRow(h, a) == [i \in DOMAIN h |-> IF h[i] \in DOMAIN a THEN a[h[i]] ELSE <<>>]

Named == "name" :> Acme

PhoneCells == {<<>>, <<"(","5",")"," ","1">>, <<"5","-","1">>, <<"5","2">>, <<"e","x","t">>}

PhoneCellRows ==
    {Named @@ ("phone" :> p0) @@ ("phone_1" :> p1) @@ ("phone_2" :> p2) @@ ("phone_3" :> p3)
       @@ ("phone_1.phones_enricher.carrier_type" :> <<"M","o","b","i","l","e">>)
       @@ ("phone_3.phones_enricher.carrier_type" :> <<"l","a","n","d","l","i","n","e">>) :
       p0 \in PhoneCells, p1 \in PhoneCells, p2 \in PhoneCells, p3 \in PhoneCells}

FallbackCellRows ==
    {Named @@ ("state" :> c1) @@ ("us_state" :> c2)
       @@ ("site.company_insights.founded_year" :> c3) @@ ("company_year_started" :> c4) :
       c1 \in {<<>>, <<"L","A">>}, c2 \in {<<>>, <<"T","X">>},
       c3 \in {<<>>, <<"2","0","1","9">>}, c4 \in {<<>>, <<"2","0","2","0">>}}
    \cup
    {Named @@ ("site.company_insights.employees" :> c5) @@ ("number_of_employees" :> c6)
       @@ ("description" :> c7) @@ ("site.company_insights.description" :> c8) :
       c5 \in {<<>>, <<"1","2",".","9">>}, c6 \in {<<>>, <<"7">>},
       c7 \in {<<>>, <<"d">>}, c8 \in {<<>>, <<"s">>}}

FlagCellRows ==
    {Named @@ ("site" :> c1) @@ ("rating" :> c2) @@ ("reviews" :> c3) @@ ("verified" :> c4)
       @@ ("email_1.emails_validator.status" :> c5)
       @@ ("site.company_insights.founded_year" :> c6)
       @@ ("phone.phones_enricher.carrier_type" :> c7) :
       c1 \in {<<>>, <<"x",".","c","o">>},
       c2 \in {<<>>, <<"4",".","5">>, <<"4",".","4","9">>, <<"n","a","n">>, <<"i","n","f">>},
       c3 \in {<<>>, <<"0">>, <<"1","2">>, <<"i","n","f">>},
       c4 \in {<<"F","A","L","S","E">>, <<"t","r","u","e">>},
       c5 \in {<<>>, <<"R","E","C","E","I","V","I","N","G">>, <<"r","e","c","e","i","v","i","n","g">>},
       c6 \in {<<"2","0","1","9">>, <<"2","0","2","0">>},
       c7 \in {<<>>, <<"M","O","B","I","L","E">>}}

\* the files drawn: a header with the rows that vary under it
RecFiles ==
    {<<PhoneHeader, a>> : a \in PhoneCellRows}
      \cup {<<h, a>> : h \in {FallbackHeader, AltHeader}, a \in FallbackCellRows}
      \cup {<<FlagHeader, a>> : a \in FlagCellRows}

\* a row with a site, a verified flag and a valid e-mail status
FixedCells ==
    ("name" :> <<"B">>) @@ ("site" :> <<"x",".","c","o">>) @@ ("verified" :> <<"t","r","u","e">>)
      @@ ("email_1.emails_validator.status" :> <<"R","E","C","E","I","V","I","N","G">>) @@ ("working_hours" :> <<"M","o","n",":","9","-","5","|","x">>)

RecRequests == {<<>>, <<1>>, <<3, 1, 1>>, <<0, 2, 1>>, <<4, 3>>}

InitRecord ==
    /\ \E f \in RecFiles :
          /\ headers = f[1]
          /\ all_rows = <<MakeRow(headers, f[2]), <<>>, MakeRow(headers, FixedCells), <<Acme>>>>
    /\ specific_rows \in RecRequests
    /\ output_file = Absent
    /\ pc = "start"
    /\ hours_string = <<>>
    /\ InitRun

SpecRecord == InitRecord /\ [][Next]_vars

(***************************************************************************)
(* Properties of the records and of the aggregation                        *)
(***************************************************************************)
IsProcessedLine(line) == line[1] = "processed"

\* the row number behind the k-th record: the k-th "Processed row" line printed
SourceRow(k) == SelectSeq(stdout, IsProcessedLine)[k][2]

CountOf(cs, Flag(_)) == Cardinality({k \in DOMAIN cs : Flag(cs[k])})

\* C4: in the final document each of the six segment counts is the number of
\* records whose flag is true, and total_count is the number of records.
C4_SegmentCounts ==
    json_data # NoDocument =>
        LET doc == json_data[1]
            cs  == doc.hvac_contractors
        IN  /\ cs = hvac_contractors
            /\ doc.meta.total_count = Cardinality(DOMAIN cs)
            /\ doc.meta.segments.with_website      = CountOf(cs, HasWebsite)
            /\ doc.meta.segments.with_valid_email  = CountOf(cs, HasValidEmail)
            /\ doc.meta.segments.with_mobile_phone = CountOf(cs, HasMobile)
            /\ doc.meta.segments.high_rated        = CountOf(cs, HighRating)
            /\ doc.meta.segments.established       = CountOf(cs, Established)
            /\ doc.meta.segments.verified          = CountOf(cs, IsVerified)

\* three records, the counts of the flags differing
C4_Witness ==
    /\ pc = "done"
    /\ json_data[1].meta.total_count = 3
    /\ json_data[1].meta.segments.with_website = 1
    /\ json_data[1].meta.segments.high_rated = 2
    /\ json_data[1].meta.segments.established = 0
    /\ json_data[1].meta.segments.verified = 3

\* the additional phones are entries of the columns f[1] < ... < f[n] of PhoneFields
InColumnOrder(h, row, phones) ==
    \E f \in [DOMAIN phones -> DOMAIN PhoneFields] :
        /\ \A i, j \in DOMAIN phones : i < j => f[i] < f[j]
        /\ \A i \in DOMAIN phones : phones[i] = PhoneEntry(h, row, PhoneFields[f[i]])

\* C5: in every record no two additional phones have the same digits, none has
\* the digits of the primary phone, and they stand in the order of their columns.
C5_PhonesDistinct ==
    \A k \in DOMAIN hvac_contractors :
        LET c      == hvac_contractors[k]
            phones == c.additional_phones
        IN  /\ \A i, j \in DOMAIN phones :
                  i # j => DigitsOnly(phones[i].number) # DigitsOnly(phones[j].number)
            /\ \A i \in DOMAIN phones : DigitsOnly(phones[i].number) # DigitsOnly(c.phone)
            /\ InColumnOrder(headers, all_rows[SourceRow(k)], phones)

\* a record whose phone_1 repeats the primary phone in another format and whose
\* phone_2 and phone_3 hold one new number twice
C5_Witness ==
    \E k \in DOMAIN hvac_contractors :
        LET c   == hvac_contractors[k]
            row == all_rows[SourceRow(k)]
            v(f) == get_value(headers, row, f, <<>>)
        IN  /\ c.phone # <<>> /\ v("phone_1") # <<>> /\ v("phone_1") # c.phone
            /\ DigitsOnly(v("phone_1")) = DigitsOnly(c.phone)
            /\ v("phone_2") # <<>> /\ DigitsOnly(v("phone_2")) = DigitsOnly(v("phone_3"))
            /\ Len(c.additional_phones) = 1
            /\ c.additional_phones[1].number = v("phone_2")

\* the value of a field with a fallback chain: the alternate column's value
\* whenever the primary column gives none
WithFallback(h, row, primary, alternate) ==
    IF get_value(h, row, primary, <<>>) = <<>>
    THEN get_value(h, row, alternate, <<>>)
    ELSE get_value(h, row, primary, <<>>)

\* C10: every record's state, year_founded, employee_count and description take
\* the alternate column's value whenever the primary column gives none.
C10_FallbackChains ==
    \A k \in DOMAIN hvac_contractors :
        LET c   == hvac_contractors[k]
            row == all_rows[SourceRow(k)]
        IN  /\ c.state = WithFallback(headers, row, "state", "us_state")
            /\ c.year_founded =
                  clean_number(WithFallback(headers, row, "site.company_insights.founded_year",
                                            "company_year_started")).val
            /\ c.employee_count =
                  clean_number(WithFallback(headers, row, "site.company_insights.employees",
                                            "number_of_employees")).val
            /\ c.description =
                  WithFallback(headers, row, "description", "site.company_insights.description")

(***************************************************************************)
(* Two runs of the transform on the same file and the same requested list, *)
(* the clock advancing at any moment.                                      *)
(***************************************************************************)
MaxClock == 3

TwiceHeader == <<"place_id", "name", "site.company_insights.founded_year">>

TwiceRows ==
    <<<<P1, Acme, <<"2","0","1","9">>>>,
      <<<<>>, <<"B">>, <<"2","0","2","0">>>>,
      <<P1>>,
      <<P1, <<>>, <<"2","0","1","9">>>>>>

InitTwice ==
    /\ headers = TwiceHeader
    /\ all_rows = TwiceRows
    /\ specific_rows \in SeqsUpTo(1..(Len(TwiceRows) + 1), MaxReq)
    /\ output_file = Absent
    /\ pc = "start"
    /\ hours_string = <<>>
    /\ InitRun

\* time passes
Tick ==
    /\ now < MaxClock
    /\ pc \in {"start", "loop", "open", "dump", "done"}
    /\ now' = now + 1
    /\ UNCHANGED <<headers, all_rows, specific_rows, current_year, pc, pos, hvac_contractors,
                   stdout, json_data, output_file, opens, run, first_doc, hours_string,
                   hours_result>>

\* lines 328-335 once more: the transform is run again on the same arguments
Rerun ==
    /\ pc = "done"
    /\ run = 1
    /\ first_doc' = json_data
    /\ run' = 2
    /\ pc' = "start"
    /\ pos' = 1
    /\ hvac_contractors' = <<>>
    /\ stdout' = <<>>
    /\ json_data' = NoDocument
    /\ opens' = 0
    /\ UNCHANGED <<headers, all_rows, specific_rows, now, current_year, output_file,
                   hours_string, hours_result>>

NextTwice ==
    \/ Next
    \/ Tick
    \/ Rerun

SpecTwice == InitTwice /\ [][NextTwice]_vars

AnyFallbackId == [fallback |-> TRUE, text |-> <<>>, row |-> 0, ts |-> 0]

\* a document with the fallback ids and generated_at blanked
Blanked(doc) ==
    [doc EXCEPT
       !.hvac_contractors =
           [k \in DOMAIN @ |-> [@[k] EXCEPT !.id = IF @.fallback THEN AnyFallbackId ELSE @]],
       !.meta.generated_at = 0]

\* the same with the fields computed from the calendar year blanked as well
BlankedYear(doc) ==
    [Blanked(doc) EXCEPT
       !.hvac_contractors =
           [k \in DOMAIN @ |-> [@[k] EXCEPT !.years_in_business = <<>>,
                                            !.segmentation.established_business = FALSE]],
       !.meta.segments.established = 0]

BothRunsDone == run = 2 /\ pc = "done"

\* C7 as stated: the documents of the two runs differ at most in the fallback
\* ids and in generated_at.
C7_SameDocument ==
    BothRunsDone => Blanked(json_data[1]) = Blanked(first_doc[1])

\* C7 amended: they differ at most in the fallback ids, in generated_at and in
\* what is computed from the calendar year of the run: years_in_business,
\* established_business and the established count.
C7_SameDocumentButYear ==
    BothRunsDone => BlankedYear(json_data[1]) = BlankedYear(first_doc[1])

\* two finished runs in different years whose documents differ in a fallback id
\* and in years_in_business
C7_Witness ==
    /\ BothRunsDone
    /\ \E k \in DOMAIN hvac_contractors :
          /\ json_data[1].hvac_contractors[k].id.fallback
          /\ json_data[1].hvac_contractors[k].id # first_doc[1].hvac_contractors[k].id
          /\ json_data[1].hvac_contractors[k].years_in_business
                # first_doc[1].hvac_contractors[k].years_in_business

====
